---------------------------- MODULE Spec2Model ----------------------------
(***************************************************************************)
(* Connection priming of hopper-rs (src/server/bridge/forwarding.rs).      *)
(*                                                                         *)
(* One accepted client connection is modelled from the moment its          *)
(* handshake has been decoded: a primer is constructed (Passthrough,       *)
(* BungeeCord::from_username, RealIP::new) and its prime_connection runs   *)
(* statement by statement until it returns, or unwinds with a panic.       *)
(* Text is a sequence of bytes (all model characters are ASCII, so byte    *)
(* indices and character indices coincide, as they do in a Rust String     *)
(* holding ASCII).                                                         *)
(***************************************************************************)
EXTENDS Integers, Sequences, FiniteSets, TLC

(* ------------------------------ bounds -------------------------------- *)

\* longest client-supplied server_address that is enumerated
MaxLen == 3

\* most bytes a failing socket write is allowed to have delivered
MaxPartial == 2

\* width of usize in the model (the real width is 64; only 2^w > every
\* string length matters for the wrapped index)
UsizeBits == 16

(* ------------------------- program constants -------------------------- *)

\* '\x00', the BungeeCord / FML delimiter
NUL == 0

\* '/', the RealIP marker character
SLASH == 47

(* ------------------------------ inputs -------------------------------- *)

\* characters a client may put in server_address: NUL, '/', 'a', 'b'
AddrChars == {NUL, SLASH, 97, 98}

RECURSIVE SeqsUpTo(_, _)
SeqsUpTo(S, n) ==
    IF n = 0 THEN {<< >>}
    ELSE LET shorter == SeqsUpTo(S, n - 1)
         IN  shorter \cup {Append(s, c) : s \in shorter, c \in S}

Addresses == SeqsUpTo(AddrChars, MaxLen)

\* peer socket addresses (IPv4), 203.0.113.5:54321 and 10.0.0.1:80
Peers == { [ip |-> <<203, 0, 113, 5>>, port |-> 54321],
           [ip |-> <<10, 0, 0, 1>>,    port |-> 80] }

\* player names "Notch" and "jeb_"
Names == { <<78, 111, 116, 99, 104>>, <<106, 101, 98, 95>> }

ProtocolVersions == {47, 763}
NextStates == {1, 2}
ServerPorts == {25565}

\* bytes of the received packet that the parser does not model
Extras == { << >>, <<255>> }

(* ------------------------- text and encoding -------------------------- *)

RECURSIVE DecText(_)
\* Display of an unsigned integer: its decimal digits
DecText(n) ==
    IF n < 10 THEN <<48 + n>>
    ELSE Append(DecText(n \div 10), 48 + (n % 10))

\* Display of an Ipv4Addr: the four octets joined by '.'
IpText(ip) ==
    DecText(ip[1]) \o <<46>> \o DecText(ip[2]) \o <<46>> \o
    DecText(ip[3]) \o <<46>> \o DecText(ip[4])

\* Display of a SocketAddr (V4): ip ':' port
SocketAddrText(addr) == IpText(addr.ip) \o <<58>> \o DecText(addr.port)

HexDigit(d) == IF d < 10 THEN 48 + d ELSE 87 + d

RECURSIVE HexText(_)
HexText(bytes) ==
    IF bytes = << >> THEN << >>
    ELSE <<HexDigit(Head(bytes) \div 16), HexDigit(Head(bytes) % 16)>>
             \o HexText(Tail(bytes))

\* Display of a PlayerUuid: canonical hyphenated lower-case hex, 8-4-4-4-12
UuidText(u) ==
    HexText(SubSeq(u, 1, 4)) \o <<45>> \o HexText(SubSeq(u, 5, 6)) \o <<45>> \o
    HexText(SubSeq(u, 7, 8)) \o <<45>> \o HexText(SubSeq(u, 9, 10)) \o <<45>> \o
    HexText(SubSeq(u, 11, 16))

RECURSIVE Sum(_)
Sum(s) == IF s = << >> THEN 0 ELSE Head(s) + Sum(Tail(s))

\* PlayerUuid::offline_player: a deterministic 128-bit digest of the name
offline_player(name) ==
    [i \in 1..16 |-> (Sum(name) * i + 31 * (i - 1) + Len(name)) % 256]

RECURSIVE VarInt(_)
\* protocol VarInt: 7 bits per byte, least significant group first
VarInt(n) ==
    IF n < 128 THEN <<n>>
    ELSE <<128 + (n % 128)>> \o VarInt(n \div 128)

\* body of a serialized Handshake packet (packet id 0)
HandshakeBody(hs) ==
    VarInt(0) \o VarInt(hs.protocol_version) \o
    VarInt(Len(hs.server_address)) \o hs.server_address \o
    <<hs.server_port \div 256, hs.server_port % 256>> \o
    VarInt(hs.next_state)

\* the bytes packet::write_serialize puts on the wire: length-prefixed body
Serialize(hs) == VarInt(Len(HandshakeBody(hs))) \o HandshakeBody(hs)

\* DecodedPacket::into_data: the parsed structure
into_data(og) == og.data

\* DecodedPacket::as_ref: the packet as it was received
as_ref(og) == og.raw

(* --------------------------- string helpers --------------------------- *)

\* str::contains(char)
Contains(s, c) == \E i \in 1..Len(s) : s[i] = c

\* str::find(char): 0-based index of the first occurrence, -1 for None
Find(s, c) ==
    IF Contains(s, c)
    THEN (CHOOSE i \in 1..Len(s) : s[i] = c /\ \A j \in 1..(i - 1) : s[j] # c) - 1
    ELSE -1

InsertStr_overwrite(s, idx, t) ==
    SubSeq(s, 1, idx) \o t \o SubSeq(s, idx + 2, Len(s))

\* String::insert_str(idx, t), idx 0-based and on a character boundary
InsertStr(s, idx, t) ==
    SubSeq(s, 1, idx) \o t \o SubSeq(s, idx + 1, Len(s))

(* -------------------- expressions of prime_connection ----------------- *)

BungeeInvalid_never(addr) == FALSE

\* BungeeCord: handshake.server_address.contains('\x00')
BungeeInvalid(addr) == Contains(addr, NUL)

BungeePieces_withPort(player_addr, player_uuid) ==
    << <<NUL>>, SocketAddrText(player_addr), <<NUL>>, UuidText(player_uuid) >>

\* BungeeCord: the pieces write!(.., "\x00{}\x00{}", ip, uuid) pushes, in order
BungeePieces(player_addr, player_uuid) ==
    << <<NUL>>, IpText(player_addr.ip), <<NUL>>, UuidText(player_uuid) >>

FmtDone_early(i, n) == i >= n - 1

\* write! has pushed piece i of n: formatting is over after the last one
FmtDone(i, n) == i >= n

RealIPInvalid_firstOnly(addr) == Len(addr) > 0 /\ addr[1] = SLASH

\* RealIP: handshake.server_address.contains('/')
RealIPInvalid(addr) == Contains(addr, SLASH)

\* RealIP: find('\x00') is Some(0), so `a - 1` overflows
InsertIndexOverflows(addr) == Find(addr, NUL) = 0

\* RealIP: find('\x00').map(|a| a - 1).unwrap_or(len), with wrapping arithmetic
InsertIndex(addr) ==
    IF Find(addr, NUL) = -1 THEN Len(addr)
    ELSE (Find(addr, NUL) - 1) % (2 ^ UsizeBits)

RealipData_twoSlashes(player_addr) == <<SLASH, SLASH>> \o SocketAddrText(player_addr)

\* RealIP: format!("///{}", self.player_addr)
RealipData(player_addr) == <<SLASH, SLASH, SLASH>> \o SocketAddrText(player_addr)

PassthroughBytes_reserialize(og) == Serialize(into_data(og))

\* Passthrough: og_handshake.as_ref(), the packet written as it was received
PassthroughBytes(og) == as_ref(og)

WriteResult_swallow(ok) == "Ok"

\* `write(..).await?; Ok(())`: the I/O error is returned, else Ok
WriteResult(ok) == IF ok THEN "Ok" ELSE "Io"

(* ------------------------------- state -------------------------------- *)

VARIABLES
    conn,          \* what the acceptor knows: peer address and player name
    og_handshake,  \* DecodedPacket<Handshake>: raw bytes and parsed data
    primer,        \* the constructed primer (kind, player_addr, player_uuid)
    handshake,     \* prime_connection's local `handshake`
    fmt_i,         \* pieces write! has pushed so far
    insert_index,  \* RealIP's local `insert_index`
    pc,            \* position in the connection's priming
    result,        \* how prime_connection ended
    writes,        \* write requests made on the backend socket, in order,
                   \* each with the structure serialized (if any), the
                   \* bytes requested and whether the socket accepted them
    sent           \* bytes that reached the backend socket

vars == <<conn, og_handshake, primer, handshake, fmt_i, insert_index,
          pc, result, writes, sent>>

NoPrimer == [kind |-> "none", player_addr |-> << >>, player_uuid |-> << >>]

Handshakes ==
    [protocol_version : ProtocolVersions, server_address : Addresses,
     server_port : ServerPorts, next_state : NextStates]

Min(a, b) == IF a < b THEN a ELSE b

Init ==
    /\ conn \in [peer : Peers, name : Names]
    /\ \E hs \in Handshakes, extra \in Extras :
           og_handshake = [raw |-> Serialize(hs) \o extra, data |-> hs]
    /\ primer = NoPrimer
    /\ handshake = << >>
    /\ fmt_i = 0
    /\ insert_index = 0
    /\ pc = "new"
    /\ result = "None"
    /\ writes = << >>
    /\ sent = << >>

(* ---------------------------- construction ---------------------------- *)

\* Passthrough is a unit struct
Passthrough_new ==
    /\ pc = "new"
    /\ primer' = [kind |-> "Passthrough", player_addr |-> << >>, player_uuid |-> << >>]
    /\ pc' = "prime"
    /\ UNCHANGED <<conn, og_handshake, handshake, fmt_i, insert_index,
                   result, writes, sent>>

BungeeCord_from_username ==
    /\ pc = "new"
    /\ primer' = [kind |-> "BungeeCord", player_addr |-> conn.peer,
                  player_uuid |-> offline_player(conn.name)]
    /\ pc' = "prime"
    /\ UNCHANGED <<conn, og_handshake, handshake, fmt_i, insert_index,
                   result, writes, sent>>

RealIP_new ==
    /\ pc = "new"
    /\ primer' = [kind |-> "RealIP", player_addr |-> conn.peer, player_uuid |-> << >>]
    /\ pc' = "prime"
    /\ UNCHANGED <<conn, og_handshake, handshake, fmt_i, insert_index,
                   result, writes, sent>>

(* --------------------------- the socket write ------------------------- *)

\* One write request of `bytes` on the backend socket.  It either delivers
\* all of them, or fails after delivering a proper prefix.
SocketWrite(hsOpt, bytes) ==
    /\ \/ /\ writes' = Append(writes, [hs |-> hsOpt, bytes |-> bytes, ok |-> TRUE])
          /\ sent' = sent \o bytes
          /\ result' = WriteResult(TRUE)
       \/ /\ writes' = Append(writes, [hs |-> hsOpt, bytes |-> bytes, ok |-> FALSE])
          /\ \E n \in 0..Min(MaxPartial, Len(bytes) - 1) :
                 sent' = sent \o SubSeq(bytes, 1, n)
          /\ result' = WriteResult(FALSE)
    /\ pc' = "done"

(* ----------------------------- Passthrough ---------------------------- *)

Passthrough_prime_connection ==
    /\ pc = "prime"
    /\ primer.kind = "Passthrough"
    /\ SocketWrite(<< >>, PassthroughBytes(og_handshake))
    /\ UNCHANGED <<conn, og_handshake, primer, handshake, fmt_i, insert_index>>

(* ----------------------------- BungeeCord ----------------------------- *)

\* let mut handshake = og_handshake.into_data(); the NUL check
BungeeCord_validate ==
    /\ pc = "prime"
    /\ primer.kind = "BungeeCord"
    /\ handshake' = into_data(og_handshake)
    /\ IF BungeeInvalid(into_data(og_handshake).server_address)
       THEN /\ result' = "Invalid"
            /\ pc' = "done"
       ELSE /\ result' = result
            /\ pc' = "bc_fmt"
    /\ UNCHANGED <<conn, og_handshake, primer, fmt_i, insert_index, writes, sent>>

\* write!(handshake.server_address, ..) pushes its next piece
BungeeCord_write_fmt ==
    /\ pc = "bc_fmt"
    /\ LET pieces == BungeePieces(primer.player_addr, primer.player_uuid)
       IN  /\ handshake' = [handshake EXCEPT
                               !.server_address = @ \o pieces[fmt_i + 1]]
           /\ fmt_i' = fmt_i + 1
           /\ pc' = IF FmtDone(fmt_i + 1, Len(pieces)) THEN "bc_write" ELSE "bc_fmt"
    /\ UNCHANGED <<conn, og_handshake, primer, insert_index, result, writes, sent>>

\* packet::write_serialize(handshake, stream).await?; Ok(())
BungeeCord_write_serialize ==
    /\ pc = "bc_write"
    /\ SocketWrite(<<handshake>>, Serialize(handshake))
    /\ UNCHANGED <<conn, og_handshake, primer, handshake, fmt_i, insert_index>>

(* ------------------------------- RealIP ------------------------------- *)

\* let mut handshake = og_handshake.into_data(); the '/' check
RealIP_validate ==
    /\ pc = "prime"
    /\ primer.kind = "RealIP"
    /\ handshake' = into_data(og_handshake)
    /\ IF RealIPInvalid(into_data(og_handshake).server_address)
       THEN /\ result' = "Invalid"
            /\ pc' = "done"
       ELSE /\ result' = result
            /\ pc' = "rip_index"
    /\ UNCHANGED <<conn, og_handshake, primer, fmt_i, insert_index, writes, sent>>

\* let insert_index = ..; with overflow checks `a - 1` panics on Some(0),
\* without them it wraps
RealIP_insert_index ==
    /\ pc = "rip_index"
    /\ \/ /\ InsertIndexOverflows(handshake.server_address)
          /\ result' = "Panic"
          /\ pc' = "done"
          /\ UNCHANGED insert_index
       \/ /\ insert_index' = InsertIndex(handshake.server_address)
          /\ pc' = "rip_insert"
          /\ UNCHANGED result
    /\ UNCHANGED <<conn, og_handshake, primer, handshake, fmt_i, writes, sent>>

\* handshake.server_address.insert_str(insert_index, &realip_data), which
\* asserts that the index is a character boundary of the string
RealIP_insert_str ==
    /\ pc = "rip_insert"
    /\ IF insert_index > Len(handshake.server_address)
       THEN /\ result' = "Panic"
            /\ pc' = "done"
            /\ UNCHANGED handshake
       ELSE /\ handshake' = [handshake EXCEPT
                                !.server_address =
                                    InsertStr(@, insert_index,
                                              RealipData(primer.player_addr))]
            /\ pc' = "rip_write"
            /\ UNCHANGED result
    /\ UNCHANGED <<conn, og_handshake, primer, fmt_i, insert_index, writes, sent>>

\* packet::write_serialize(handshake, stream).await?; Ok(())
RealIP_write_serialize ==
    /\ pc = "rip_write"
    /\ SocketWrite(<<handshake>>, Serialize(handshake))
    /\ UNCHANGED <<conn, og_handshake, primer, handshake, fmt_i, insert_index>>

Next ==
    \/ Passthrough_new
    \/ BungeeCord_from_username
    \/ RealIP_new
    \/ Passthrough_prime_connection
    \/ BungeeCord_validate
    \/ BungeeCord_write_fmt
    \/ BungeeCord_write_serialize
    \/ RealIP_validate
    \/ RealIP_insert_index
    \/ RealIP_insert_str
    \/ RealIP_write_serialize

Spec == Init /\ [][Next]_vars

(* ------------------------------ properties ---------------------------- *)

\* the address the client sent
OgAddr == og_handshake.data.server_address

\* the address of the handshake given to the i-th write request
WrittenAddr(i) == writes[i].hs[1].server_address

RECURSIVE IsSubsequence(_, _)
\* every element of s occurs in t, in the order of s
IsSubsequence(s, t) ==
    IF s = << >> THEN TRUE
    ELSE IF t = << >> THEN FALSE
    ELSE IF Head(s) = Head(t) THEN IsSubsequence(Tail(s), Tail(t))
    ELSE IsSubsequence(s, Tail(t))

\* C1: BungeeCord priming of an address a without the delimiter never fails
\* validation, and the one handshake it hands to the writer has
\* server_address = a + NUL + text(peer ip, no port) + NUL + text(u), where
\* u is the offline identifier of the player name given to from_username.
C1_BungeeAddress ==
    (primer.kind = "BungeeCord" /\ pc = "done" /\ ~Contains(OgAddr, NUL)) =>
        /\ result \in {"Ok", "Io"}
        /\ Len(writes) = 1
        /\ WrittenAddr(1) =
               OgAddr \o <<NUL>> \o IpText(conn.peer.ip) \o <<NUL>>
                      \o UuidText(offline_player(conn.name))

C1_Witness ==
    /\ primer.kind = "BungeeCord" /\ pc = "done" /\ result = "Ok"
    /\ OgAddr = <<97, SLASH, 98>>
    /\ Len(writes) = 1

\* C2: BungeeCord priming of an address that contains the delimiter (at any
\* position) ends with Invalid, and no write is requested and no byte
\* reaches the backend socket at any point.
C2_BungeeRejectsNul ==
    (primer.kind = "BungeeCord" /\ Contains(OgAddr, NUL)) =>
        /\ writes = << >>
        /\ sent = << >>
        /\ result \in {"None", "Invalid"}
        /\ pc = "done" => result = "Invalid"

C2_Witness ==
    /\ primer.kind = "BungeeCord" /\ pc = "done" /\ result = "Invalid"
    /\ Len(OgAddr) = 2 /\ OgAddr[1] # NUL /\ OgAddr[2] = NUL
    /\ sent = << >>

\* C3 (as stated): RealIP priming of a1 + NUL + a2 without '/', a1 being the
\* part before the first delimiter, transmits a1 + "///" + text(ip:port) +
\* NUL + a2.
C3_RealIPBeforeDelimiter ==
    (primer.kind = "RealIP" /\ pc = "done" /\ result = "Ok"
        /\ ~Contains(OgAddr, SLASH) /\ Contains(OgAddr, NUL)) =>
        LET d == Find(OgAddr, NUL)
        IN  /\ Len(writes) = 1
            /\ WrittenAddr(1) =
                   SubSeq(OgAddr, 1, d) \o <<SLASH, SLASH, SLASH>>
                       \o SocketAddrText(conn.peer)
                       \o SubSeq(OgAddr, d + 1, Len(OgAddr))

\* C4 (as stated): when the delimiter is at index 0 (and there is no '/'),
\* RealIP priming does not abort: it inserts "///" + text(ip:port) at
\* index 0 and goes on to write that handshake.
C4_RealIPDelimiterFirst ==
    (primer.kind = "RealIP" /\ pc = "done"
        /\ ~Contains(OgAddr, SLASH) /\ Find(OgAddr, NUL) = 0) =>
        /\ result # "Panic"
        /\ Len(writes) = 1
        /\ WrittenAddr(1) =
               <<SLASH, SLASH, SLASH>> \o SocketAddrText(conn.peer) \o OgAddr

\* C5: RealIP priming of an address a with neither '/' nor the delimiter
\* (the empty address included) never fails validation, and the handshake
\* handed to the writer has server_address = a + "///" + text(ip:port).
C5_RealIPAppend ==
    (primer.kind = "RealIP" /\ pc = "done"
        /\ ~Contains(OgAddr, SLASH) /\ ~Contains(OgAddr, NUL)) =>
        /\ result \in {"Ok", "Io"}
        /\ Len(writes) = 1
        /\ WrittenAddr(1) =
               OgAddr \o <<SLASH, SLASH, SLASH>> \o IpText(conn.peer.ip)
                      \o <<58>> \o DecText(conn.peer.port)

C5_Witness ==
    /\ primer.kind = "RealIP" /\ pc = "done" /\ result = "Ok"
    /\ OgAddr = << >>
    /\ Len(writes) = 1

\* C6: RealIP priming of an address that contains '/' (anywhere, with or
\* without a delimiter) ends with Invalid, and no write is requested and no
\* byte reaches the backend socket at any point.
C6_RealIPRejectsSlash ==
    (primer.kind = "RealIP" /\ Contains(OgAddr, SLASH)) =>
        /\ writes = << >>
        /\ sent = << >>
        /\ result \in {"None", "Invalid"}
        /\ pc = "done" => result = "Invalid"

C6_Witness ==
    /\ primer.kind = "RealIP" /\ pc = "done" /\ result = "Invalid"
    /\ OgAddr = <<NUL, 97, SLASH>>
    /\ sent = << >>

\* C7: Passthrough priming requests exactly one write, of the bytes of the
\* packet as received (not of a re-serialization of the parsed structure),
\* whatever the address contains; it never ends with Invalid, and when the
\* write succeeds the backend has received exactly those bytes.
C7_PassthroughRaw ==
    (primer.kind = "Passthrough" /\ pc = "done") =>
        /\ result \in {"Ok", "Io"}
        /\ Len(writes) = 1
        /\ writes[1].bytes = og_handshake.raw
        /\ result = "Ok" => sent = og_handshake.raw

C7_Witness ==
    /\ primer.kind = "Passthrough" /\ pc = "done" /\ result = "Ok"
    /\ Contains(OgAddr, NUL) /\ Contains(OgAddr, SLASH)
    /\ og_handshake.raw # Serialize(og_handshake.data)
    /\ sent = og_handshake.raw

\* C8: a priming call requests at most one write.  When it returns Ok,
\* exactly one write was requested and all of its bytes reached the socket.
\* What is handed to the writer is the packet as received (Passthrough) or
\* the serialization of a handshake whose address is the original with the
\* complete forwarding field added (BungeeCord: appended; RealIP: inserted
\* whole at one position), never an address with part of the field.  A call
\* that ends with Invalid has requested no write and sent no byte.
C8_AllOrNothing ==
    /\ Len(writes) <= 1
    /\ result = "Ok" => (Len(writes) = 1 /\ sent = writes[1].bytes)
    /\ result = "Invalid" => (writes = << >> /\ sent = << >>)
    /\ \A i \in 1..Len(writes) :
           \/ /\ primer.kind = "Passthrough"
              /\ writes[i].hs = << >>
              /\ writes[i].bytes = og_handshake.raw
           \/ /\ primer.kind = "BungeeCord"
              /\ writes[i].bytes = Serialize(writes[i].hs[1])
              /\ WrittenAddr(i) =
                     OgAddr \o <<NUL>> \o IpText(conn.peer.ip) \o <<NUL>>
                            \o UuidText(primer.player_uuid)
           \/ /\ primer.kind = "RealIP"
              /\ writes[i].bytes = Serialize(writes[i].hs[1])
              /\ \E k \in 0..Len(OgAddr) :
                     WrittenAddr(i) =
                         SubSeq(OgAddr, 1, k) \o <<SLASH, SLASH, SLASH>>
                             \o SocketAddrText(conn.peer)
                             \o SubSeq(OgAddr, k + 1, Len(OgAddr))

C8_Witness ==
    /\ primer.kind = "BungeeCord" /\ pc = "done" /\ result = "Ok"
    /\ fmt_i = 4
    /\ Len(writes) = 1 /\ sent = Serialize(handshake)
    /\ Len(OgAddr) = 1

\* C9: when the socket refuses the handshake write, the priming call of
\* every primer ends with the I/O error (never Ok), and the write is not
\* requested again.
C9_WriteErrorSurfaces ==
    /\ \A i \in 1..Len(writes) :
           ~writes[i].ok => (pc = "done" /\ result = "Io" /\ Len(writes) = 1)
    /\ result = "Ok" => \A i \in 1..Len(writes) : writes[i].ok

C9_Witness ==
    /\ pc = "done" /\ result = "Io"
    /\ primer.kind = "Passthrough"
    /\ Len(writes) = 1 /\ ~writes[1].ok
    /\ Len(sent) < Len(writes[1].bytes)

\* C10: in a successful BungeeCord or RealIP priming the handshake handed to
\* the writer has the protocol_version, server_port and next_state of the
\* parsed original, and the original server_address is a subsequence of the
\* transmitted one.
C10_OnlyAddressChanges ==
    (primer.kind \in {"BungeeCord", "RealIP"} /\ pc = "done" /\ result = "Ok") =>
        /\ Len(writes) = 1
        /\ writes[1].hs[1].protocol_version = og_handshake.data.protocol_version
        /\ writes[1].hs[1].server_port = og_handshake.data.server_port
        /\ writes[1].hs[1].next_state = og_handshake.data.next_state
        /\ IsSubsequence(OgAddr, WrittenAddr(1))

C10_Witness ==
    /\ primer.kind = "RealIP" /\ pc = "done" /\ result = "Ok"
    /\ OgAddr = <<97, 98, NUL>>
    /\ og_handshake.data.protocol_version = 763
    /\ WrittenAddr(1) # OgAddr

=============================================================================
